---- MODULE Spec2Model ----
(***************************************************************************)
(* Model of analyze_prices.py: closing prices of VIX and SPY at +-1 and    *)
(* +-2 calendar months around US election dates, tabulated, charted and   *)
(* written to CSV.                                                         *)
(*                                                                         *)
(* Representation choices                                                  *)
(*  - a Python dict is a sequence of <<key, value>> pairs in insertion     *)
(*    order;                                                               *)
(*  - a date string is a sequence of one-character strings;                *)
(*  - a Timestamp is a record [y, m, d] (all timestamps in the program are *)
(*    at midnight);                                                        *)
(*  - a float64 is a record [k, n, d]: k = "num" is the exact rational     *)
(*    n/d in lowest terms, k = "inf" is the infinity of sign n, k = "nan"  *)
(*    is not-a-number.  Rounding and the sign of zero are not modelled.    *)
(***************************************************************************)
EXTENDS Integers, Sequences, FiniteSets, TLC

VARIABLES pc, vix_data, spy_data, df_movements, files, log, stdout, call, ret

vars == <<pc, vix_data, spy_data, df_movements, files, log, stdout, call, ret>>

(***************************************************************************)
(* Bounds of the model.                                                    *)
(***************************************************************************)
\* the largest number of rows of a fetched price series
MaxRows == 2

(***************************************************************************)
(* float64 values                                                          *)
(***************************************************************************)
Abs(i) == IF i < 0 THEN -i ELSE i

Sign(i) == IF i < 0 THEN -1 ELSE IF i = 0 THEN 0 ELSE 1

RECURSIVE GCD(_, _)
GCD(a, b) == IF b = 0 THEN a ELSE GCD(b, a % b)

NaN == [k |-> "nan", n |-> 0, d |-> 1]

Inf(s) == [k |-> "inf", n |-> s, d |-> 1]

\* the rational n/d, d # 0, in lowest terms with a positive denominator
Num(n, d) ==
    LET g == GCD(Abs(n), Abs(d))
    IN  [k |-> "num", n |-> Sign(d) * (n \div g), d |-> Abs(d) \div g]

Float(i) == [k |-> "num", n |-> i, d |-> 1]

IsNaN(v) == v.k = "nan"

IsInf(v) == v.k = "inf"

IsNum(v) == v.k = "num"

IsZero(v) == v.k = "num" /\ v.n = 0

\* a - b on float64
FSub(a, b) ==
    IF IsNaN(a) \/ IsNaN(b) THEN NaN
    ELSE IF IsInf(a) /\ IsInf(b) THEN (IF a.n = b.n THEN NaN ELSE a)
    ELSE IF IsInf(a) THEN a
    ELSE IF IsInf(b) THEN Inf(-b.n)
    ELSE Num(a.n * b.d - b.n * a.d, a.d * b.d)

\* a / b on float64: a division by zero raises nothing, it yields an
\* infinity, or not-a-number for 0/0
FDiv(a, b) ==
    IF IsNaN(a) \/ IsNaN(b) THEN NaN
    ELSE IF IsInf(a) /\ IsInf(b) THEN NaN
    ELSE IF IsInf(a) THEN Inf(a.n * (IF b.n < 0 THEN -1 ELSE 1))
    ELSE IF IsInf(b) THEN Float(0)
    ELSE IF b.n = 0 THEN (IF a.n = 0 THEN NaN ELSE Inf(Sign(a.n)))
    ELSE Num(a.n * b.d, a.d * b.n)

\* a * b on float64
FMul(a, b) ==
    IF IsNaN(a) \/ IsNaN(b) THEN NaN
    ELSE IF IsInf(a) \/ IsInf(b)
         THEN (IF IsZero(a) \/ IsZero(b) THEN NaN ELSE Inf(Sign(a.n) * Sign(b.n)))
    ELSE Num(a.n * b.n, a.d * b.d)

(***************************************************************************)
(* Python dicts, as sequences of <<key, value>> pairs                      *)
(***************************************************************************)
DictKeys(dict) == [i \in 1..Len(dict) |-> dict[i][1]]

DictHas(dict, key) == \E i \in 1..Len(dict) : dict[i][1] = key

DictGet(dict, key) == dict[CHOOSE i \in 1..Len(dict) : dict[i][1] = key][2]

\* dict[key] = value: overwrites in place, or appends a new key
DictSet(dict, key, value) ==
    IF DictHas(dict, key)
    THEN [i \in 1..Len(dict) |->
            IF dict[i][1] = key THEN <<key, value>> ELSE dict[i]]
    ELSE Append(dict, <<key, value>>)

SeqToSet(s) == {s[i] : i \in 1..Len(s)}

(***************************************************************************)
(* Dates                                                                   *)
(***************************************************************************)
DigitValue(c) ==
    CASE c = "0" -> 0 [] c = "1" -> 1 [] c = "2" -> 2 [] c = "3" -> 3
      [] c = "4" -> 4 [] c = "5" -> 5 [] c = "6" -> 6 [] c = "7" -> 7
      [] c = "8" -> 8 [] c = "9" -> 9

DigitChar(i) ==
    CASE i = 0 -> "0" [] i = 1 -> "1" [] i = 2 -> "2" [] i = 3 -> "3"
      [] i = 4 -> "4" [] i = 5 -> "5" [] i = 6 -> "6" [] i = 7 -> "7"
      [] i = 8 -> "8" [] i = 9 -> "9"

RECURSIVE ParseInt(_)
ParseInt(s) ==
    IF s = <<>> THEN 0
    ELSE 10 * ParseInt(SubSeq(s, 1, Len(s) - 1)) + DigitValue(s[Len(s)])

\* pd.to_datetime of a 'YYYY-MM-DD' string
to_datetime(str) ==
    [y |-> ParseInt(SubSeq(str, 1, 4)),
     m |-> ParseInt(SubSeq(str, 6, 7)),
     d |-> ParseInt(SubSeq(str, 9, 10))]

\* the 'YYYY-MM-DD' string of a date, the input format of the program
isoformat(date) ==
    <<DigitChar(date.y \div 1000), DigitChar((date.y \div 100) % 10),
      DigitChar((date.y \div 10) % 10), DigitChar(date.y % 10), "-",
      DigitChar(date.m \div 10), DigitChar(date.m % 10), "-",
      DigitChar(date.d \div 10), DigitChar(date.d % 10)>>

IsLeap(y) == (y % 4 = 0 /\ y % 100 # 0) \/ y % 400 = 0

DaysInMonth(y, m) ==
    IF m = 2 THEN (IF IsLeap(y) THEN 29 ELSE 28)
    ELSE IF m \in {4, 6, 9, 11} THEN 30 ELSE 31

Min(a, b) == IF a <= b THEN a ELSE b

\* Timestamp <= Timestamp
DateLE(a, b) ==
    \/ a.y < b.y
    \/ a.y = b.y /\ a.m < b.m
    \/ a.y = b.y /\ a.m = b.m /\ a.d <= b.d

DateLT(a, b) == DateLE(a, b) /\ a # b

\* DateOffset with a seeded fault: the month wraps around but the year is
\* not carried
DateOffsetNoYearCarry(date, months) ==
    LET mm == ((date.m + months - 1) % 12) + 1
    IN  [y |-> date.y, m |-> mm, d |-> Min(DaysInMonth(date.y, mm), date.d)]

\* date + pd.DateOffset(months=months): the months are split into whole
\* years and a rest of less than a year, the rest is added to the month with
\* one carry into the year, and the day is clamped to the month's length
DateOffset(date, months) ==
    LET s     == IF months < 0 THEN -1 ELSE 1
        years == s * ((months * s) \div 12)
        rest  == s * ((months * s) % 12)
        m0    == date.m + rest
        year  == date.y + years + (IF m0 > 12 THEN 1 ELSE IF m0 < 1 THEN -1 ELSE 0)
        month == IF m0 > 12 THEN m0 - 12 ELSE IF m0 < 1 THEN m0 + 12 ELSE m0
    IN  [y |-> year, m |-> month, d |-> Min(DaysInMonth(year, month), date.d)]

(***************************************************************************)
(* Program constants                                                       *)
(***************************************************************************)
ELECTION_DATES ==
    << <<2000, <<"2","0","0","0","-","1","1","-","0","7">> >>,
       <<2004, <<"2","0","0","4","-","1","1","-","0","2">> >>,
       <<2008, <<"2","0","0","8","-","1","1","-","0","4">> >>,
       <<2012, <<"2","0","1","2","-","1","1","-","0","6">> >>,
       <<2016, <<"2","0","1","6","-","1","1","-","0","8">> >>,
       <<2020, <<"2","0","2","0","-","1","1","-","0","3">> >> >>

RELATIVE_PERIODS ==
    << <<"2_months_before", -2>>,
       <<"1_month_before", -1>>,
       <<"1_month_after", 1>>,
       <<"2_months_after", 2>> >>

START_DATE == <<"2","0","0","0","-","0","1","-","0","1">>

END_DATE == <<"2","0","2","1","-","0","2","-","0","1">>

(***************************************************************************)
(* Price series: a DataFrame with a DatetimeIndex.  index is the sequence  *)
(* of trading days, columns the set of column names, Close the values of   *)
(* the 'Close' column (empty when there is no such column).                *)
(***************************************************************************)
NoFrame == [index |-> <<>>, columns |-> {}, Close |-> <<>>]

\* DataFrame.empty: no rows or no columns
IsEmpty(data) == Len(data.index) = 0 \/ data.columns = {}

\* outcome of a call that returns a date or raises
Returned(value) == [raised |-> "none", value |-> value]

Raised(exc) == [raised |-> exc, value |-> [y |-> 0, m |-> 0, d |-> 0]]

\* data.index[data.index <= target_date]
available_dates(target_date, data) ==
    SelectSeq(data.index, LAMBDA t : DateLE(t, target_date))

\* get_closest_trading_day with a seeded fault: the first available date
\* is returned, not the last
get_closest_trading_day_first(target_date, data) ==
    IF available_dates(target_date, data) = <<>>
    THEN Raised("ValueError")
    ELSE Returned(available_dates(target_date, data)[1])

\* get_closest_trading_day with a seeded fault: when no date is on or before
\* the target, the first later date is returned instead of raising
get_closest_trading_day_nearest(target_date, data) ==
    IF available_dates(target_date, data) = <<>>
    THEN (IF data.index = <<>> THEN Raised("ValueError") ELSE Returned(data.index[1]))
    ELSE Returned(available_dates(target_date, data)[Len(available_dates(target_date, data))])

get_closest_trading_day(target_date, data) ==
    IF available_dates(target_date, data) = <<>>
    THEN Raised("ValueError")
    ELSE Returned(available_dates(target_date, data)[Len(available_dates(target_date, data))])

\* get_relative_dates: the dict period -> election date shifted by the
\* months that the module-level RELATIVE_PERIODS gives for the period
get_relative_dates(election_date_str) ==
    [i \in 1..Len(RELATIVE_PERIODS) |->
        <<RELATIVE_PERIODS[i][1],
          DateOffset(to_datetime(election_date_str), RELATIVE_PERIODS[i][2])>>]

(***************************************************************************)
(* The Result Table: a DataFrame [columns, data], columns the sequence of  *)
(* column names and data[c] the sequence of the values of column c.        *)
(***************************************************************************)
NoTable == [columns |-> <<>>, data |-> [c \in {} |-> <<>>]]

NRows(df) == IF df.columns = <<>> THEN 0 ELSE Len(df.data[df.columns[1]])

HasColumn(df, c) == c \in SeqToSet(df.columns)

\* data.loc[day, 'Close']
loc_Close(data, day) ==
    IF "Close" \notin data.columns \/ ~(\E i \in 1..Len(data.index) : data.index[i] = day)
    THEN [raised |-> "KeyError", value |-> NaN]
    ELSE [raised |-> "none",
          value |-> data.Close[CHOOSE i \in 1..Len(data.index) : data.index[i] = day]]

\* the body of one try block: the closing price of the closest trading day,
\* or the exception (ValueError, KeyError) that the except clause catches
LookupPrice(rel_date, data) ==
    LET day == get_closest_trading_day(rel_date, data)
    IN  IF day.raised # "none"
        THEN [raised |-> day.raised, value |-> NaN]
        ELSE loc_Close(data, day.value)

Warning(asset, period, year) ==
    [level |-> "WARNING", msg |-> asset \o " data unavailable", at |-> <<year, period>>]

\* one try/except of the inner loop.  acc = [row, log]: row is results[year],
\* the only entry of results that the iterations for this year assign to
TryCell(acc, asset, year, period, rel_date, data) ==
    LET got == LookupPrice(rel_date, data)
    IN  IF got.raised = "none"
        THEN [row |-> DictSet(acc.row, asset \o "_" \o period, got.value),
              log |-> acc.log]
        ELSE [row |-> DictSet(acc.row, asset \o "_" \o period, NaN),
              log |-> Append(acc.log, Warning(asset, period, year))]

\* ProcessPeriod with a seeded fault: both lookups share one try block, so
\* a failure of the VIX lookup also leaves the SPY cell without a price
ProcessPeriodOneTry(acc, year, period, rel_date, vix, spy) ==
    IF LookupPrice(rel_date, vix).raised = "none"
    THEN TryCell(TryCell(acc, "VIX", year, period, rel_date, vix),
                 "SPY", year, period, rel_date, spy)
    ELSE [row |-> DictSet(DictSet(acc.row, "VIX_" \o period, NaN),
                          "SPY_" \o period, NaN),
          log |-> Append(acc.log, Warning("VIX", period, year))]

\* ProcessPeriod with a seeded fault: a failed lookup is only logged, the
\* cell is not stored
ProcessPeriodSkip(acc, year, period, rel_date, vix, spy) ==
    LET v == LookupPrice(rel_date, vix)
        s == LookupPrice(rel_date, spy)
        a == IF v.raised = "none"
             THEN TryCell(acc, "VIX", year, period, rel_date, vix)
             ELSE [row |-> acc.row,
                   log |-> Append(acc.log, Warning("VIX", period, year))]
    IN  IF s.raised = "none"
        THEN TryCell(a, "SPY", year, period, rel_date, spy)
        ELSE [row |-> a.row,
              log |-> Append(a.log, Warning("SPY", period, year))]

\* the body of the inner loop: the VIX try/except, then the SPY try/except
ProcessPeriod(acc, year, period, rel_date, vix, spy) ==
    TryCell(TryCell(acc, "VIX", year, period, rel_date, vix),
            "SPY", year, period, rel_date, spy)

\* for period, rel_date in relative_dates.items(), from the i-th item on
RECURSIVE PeriodLoop(_, _, _, _, _, _)
PeriodLoop(acc, year, relative_dates, i, vix, spy) ==
    IF i > Len(relative_dates) THEN acc
    ELSE PeriodLoop(ProcessPeriod(acc, year, relative_dates[i][1],
                                  relative_dates[i][2], vix, spy),
                    year, relative_dates, i + 1, vix, spy)

\* one iteration of the outer loop: results[year], empty before it, and the
\* log lines of the iteration
YearPass(year, date_str, vix, spy) ==
    PeriodLoop([row |-> <<>>,
                log |-> <<[level |-> "INFO", msg |-> "Processing election year",
                           at |-> <<year>>]>>],
               year, get_relative_dates(date_str), 1, vix, spy)

\* the log lines of the iterations from the i-th item of election_dates on
RECURSIVE YearLogs(_, _, _, _)
YearLogs(election_dates, i, vix, spy) ==
    IF i > Len(election_dates) THEN <<>>
    ELSE YearPass(election_dates[i][1], election_dates[i][2], vix, spy).log
         \o YearLogs(election_dates, i + 1, vix, spy)

\* the dict results and the log at the end of the loops; the parameter
\* periods is not read
MovementResults(election_dates, periods, vix, spy) ==
    [results |-> [i \in 1..Len(election_dates) |->
                    <<election_dates[i][1],
                      YearPass(election_dates[i][1], election_dates[i][2], vix, spy).row>>],
     log |-> YearLogs(election_dates, 1, vix, spy)]

\* the keys of the rows of a dict of dicts, in the order of first appearance
RECURSIVE UnionKeys(_, _, _)
UnionKeys(results, i, seen) ==
    IF i > Len(results) THEN seen
    ELSE UnionKeys(results, i + 1,
            seen \o SelectSeq(DictKeys(results[i][2]),
                              LAMBDA key : key \notin SeqToSet(seen)))

\* pd.DataFrame.from_dict(results, orient='index'), index.name = 'Year',
\* reset_index: a key that a row lacks becomes NaN in that row
from_dict(results) ==
    LET cols == UnionKeys(results, 1, <<>>)
    IN  [columns |-> <<"Year">> \o cols,
         data |-> [c \in {"Year"} \cup SeqToSet(cols) |->
                     IF c = "Year" THEN DictKeys(results)
                     ELSE [i \in 1..Len(results) |->
                             IF DictHas(results[i][2], c)
                             THEN DictGet(results[i][2], c) ELSE NaN]]]

calculate_price_movements(election_dates, periods, vix, spy) ==
    [df  |-> from_dict(MovementResults(election_dates, periods, vix, spy).results),
     log |-> MovementResults(election_dates, periods, vix, spy).log]

(***************************************************************************)
(* Change Calculator                                                       *)
(***************************************************************************)
\* df[c] = values: replaces column c, or appends it as the last column
SetColumn(df, c, values) ==
    [columns |-> IF HasColumn(df, c) THEN df.columns ELSE Append(df.columns, c),
     data |-> [x \in SeqToSet(df.columns) \cup {c} |->
                 IF x = c THEN values ELSE df.data[x]]]

\* PctChange with a seeded fault: the difference is divided by the later value
PctChangeByAfter(after, before) ==
    FMul(FDiv(FSub(after, before), after), Float(100))

\* PctChange with a seeded fault: a zero denominator is guarded and gives NaN
PctChangeGuarded(after, before) ==
    IF IsZero(before) THEN NaN
    ELSE FMul(FDiv(FSub(after, before), before), Float(100))

\* ((after - before) / before) * 100, element-wise
PctChange(after, before) ==
    FMul(FDiv(FSub(after, before), before), Float(100))

ChangeColumn(df, asset) ==
    [i \in 1..NRows(df) |->
        PctChange(df.data[asset \o "_1_month_after"][i],
                  df.data[asset \o "_1_month_before"][i])]

\* the table with the two change columns, or KeyError when a column that
\* the expressions read is missing; the VIX column is assigned first
calculate_percentage_changes(df) ==
    IF ~HasColumn(df, "VIX_1_month_after") \/ ~HasColumn(df, "VIX_1_month_before")
    THEN [raised |-> "KeyError", df |-> df]
    ELSE IF ~HasColumn(df, "SPY_1_month_after") \/ ~HasColumn(df, "SPY_1_month_before")
    THEN [raised |-> "KeyError",
          df |-> SetColumn(df, "VIX_1m_change (%)", ChangeColumn(df, "VIX"))]
    ELSE [raised |-> "none",
          df |-> SetColumn(SetColumn(df, "VIX_1m_change (%)", ChangeColumn(df, "VIX")),
                           "SPY_1m_change (%)", ChangeColumn(df, "SPY"))]

(***************************************************************************)
(* Reporting                                                               *)
(***************************************************************************)
\* one field of a CSV line: NaN is written as the empty field
CsvField(c, v) ==
    IF c = "Year" THEN [empty |-> FALSE, value |-> Float(v)]
    ELSE IF IsNaN(v) THEN [empty |-> TRUE, value |-> NaN]
    ELSE [empty |-> FALSE, value |-> v]

\* df.to_csv(path, index=False): the header line and one line per row
to_csv(df) ==
    [kind   |-> "csv",
     header |-> df.columns,
     lines  |-> [i \in 1..NRows(df) |->
                   [j \in 1..Len(df.columns) |->
                      CsvField(df.columns[j], df.data[df.columns[j]][i])]]]

\* df[columns]
Project(df, columns) ==
    [columns |-> columns, data |-> [c \in SeqToSet(columns) |-> df.data[c]]]

TrendColumns ==
    <<"VIX_1_month_before", "VIX_1_month_after",
      "SPY_1_month_before", "SPY_1_month_after">>

BarColumns == <<"VIX_2_months_before", "VIX_2_months_after">>

\* df.drop(columns=['Year'])
DropYear(df) == Project(df, SelectSeq(df.columns, LAMBDA c : c # "Year"))

\* the image files that create_visualizations saves, in order, each with the
\* part of the table it draws; a column that a chart reads and the table
\* lacks raises KeyError before that chart is saved.  The correlation
\* coefficients of the heatmap are left to the plotting backend.
create_visualizations(df) ==
    IF ~(SeqToSet(TrendColumns) \cup {"Year"} \subseteq SeqToSet(df.columns))
    THEN [raised |-> "KeyError", saved |-> <<>>]
    ELSE LET trends == <<"election_trends.png",
                         [kind |-> "line", of |-> Project(df, <<"Year">> \o TrendColumns)]>>
         IN  IF ~(SeqToSet(BarColumns) \subseteq SeqToSet(df.columns))
             THEN [raised |-> "KeyError", saved |-> <<trends>>]
             ELSE [raised |-> "none",
                   saved |-> <<trends,
                               <<"vix_comparison.png",
                                 [kind |-> "bar", of |-> Project(df, <<"Year">> \o BarColumns)]>>,
                               <<"correlation_heatmap.png",
                                 [kind |-> "heatmap", of |-> DropYear(df)]>> >>]

\* the file system after writing the files of a sequence of <<name, content>>
RECURSIVE WriteAll(_, _)
WriteAll(fs, saved) ==
    IF saved = <<>> THEN fs
    ELSE WriteAll((saved[1][1] :> saved[1][2]) @@ fs, Tail(saved))

Info(msg) == [level |-> "INFO", msg |-> msg, at |-> <<>>]

(***************************************************************************)
(* Series Fetcher                                                          *)
(***************************************************************************)
\* the trading days a fetched series may hold, in increasing order
PoolDates ==
    <<[y |-> 2000, m |-> 9, d |-> 7], [y |-> 2000, m |-> 10, d |-> 6],
      [y |-> 2021, m |-> 1, d |-> 29]>>

Prices == {Float(100), Float(110)}

\* the increasing date sequences of at most rows dates between start
\* (inclusive) and end (exclusive)
Indexes(start, end, rows) ==
    {SelectSeq(PoolDates, LAMBDA t : t \in S) :
        S \in {T \in SUBSET {t \in SeqToSet(PoolDates) : DateLE(start, t) /\ DateLT(t, end)} :
                 Cardinality(T) <= rows}}

\* what yf.download may return: any series in the date range, with closing
\* prices, or without a 'Close' column
FetchResults(start, end) ==
    UNION {{[index |-> idx, columns |-> {"Open", "Close"}, Close |-> cl] :
                cl \in [1..Len(idx) -> Prices]}
           \cup {[index |-> idx, columns |-> {"Open"}, Close |-> <<>>]} :
           idx \in Indexes(to_datetime(start), to_datetime(end), MaxRows)}

\* the log lines of download_data for a fetched series
DownloadLog(symbol, data) ==
    <<[level |-> "INFO", msg |-> "Downloading data for " \o symbol, at |-> <<>>]>>
    \o (IF IsEmpty(data)
        THEN <<[level |-> "WARNING", msg |-> "No data downloaded for " \o symbol, at |-> <<>>]>>
        ELSE <<>>)

(***************************************************************************)
(* main                                                                    *)
(***************************************************************************)
\* the statements of main with a seeded fault: the change columns are added
\* before the first CSV file is written
MainBodyChangesFirst ==
    <<"download_vix", "download_spy", "check_empty", "calculate_price_movements",
      "calculate_percentage_changes", "to_csv_initial", "create_visualizations",
      "print_changes", "to_csv_with_changes">>

\* the statements of main with a seeded fault: the emptiness check is missing
MainBodyNoCheck ==
    <<"download_vix", "download_spy", "calculate_price_movements",
      "to_csv_initial", "create_visualizations", "calculate_percentage_changes",
      "print_changes", "to_csv_with_changes">>

\* the statements of main, in program order
MainBody ==
    <<"download_vix", "download_spy", "check_empty", "calculate_price_movements",
      "to_csv_initial", "create_visualizations", "calculate_percentage_changes",
      "print_changes", "to_csv_with_changes">>

\* pc after the last statement, and after a return
Returned_pc == Len(MainBody) + 1

At(stmt) == pc \in 1..Len(MainBody) /\ MainBody[pc] = stmt

Traceback(exc) == [level |-> "TRACEBACK", msg |-> exc, at |-> <<>>]

Init ==
    /\ pc = 1
    /\ vix_data = NoFrame
    /\ spy_data = NoFrame
    /\ df_movements = NoTable
    /\ files = [f \in {} |-> NoTable]
    /\ log = <<>>
    /\ stdout = <<>>
    /\ call = [fn |-> "none"]
    /\ ret = [raised |-> "none"]

DownloadVix ==
    /\ At("download_vix")
    /\ \E data \in FetchResults(START_DATE, END_DATE) :
          /\ vix_data' = data
          /\ log' = log \o DownloadLog("^VIX", data)
    /\ pc' = pc + 1
    /\ UNCHANGED <<spy_data, df_movements, files, stdout, call, ret>>

DownloadSpy ==
    /\ At("download_spy")
    /\ \E data \in FetchResults(START_DATE, END_DATE) :
          /\ spy_data' = data
          /\ log' = log \o DownloadLog("SPY", data)
    /\ pc' = pc + 1
    /\ UNCHANGED <<vix_data, df_movements, files, stdout, call, ret>>

CheckEmpty ==
    /\ At("check_empty")
    /\ IF IsEmpty(vix_data) \/ IsEmpty(spy_data)
       THEN /\ log' = Append(log, [level |-> "ERROR",
                                   msg |-> "One or more datasets failed to download",
                                   at |-> <<>>])
            /\ pc' = Returned_pc
       ELSE /\ log' = log
            /\ pc' = pc + 1
    /\ UNCHANGED <<vix_data, spy_data, df_movements, files, stdout, call, ret>>

CalculatePriceMovements ==
    /\ At("calculate_price_movements")
    /\ LET r == calculate_price_movements(ELECTION_DATES, RELATIVE_PERIODS, vix_data, spy_data)
       IN  /\ df_movements' = r.df
           /\ log' = log \o r.log
    /\ pc' = pc + 1
    /\ UNCHANGED <<vix_data, spy_data, files, stdout, call, ret>>

ToCsvInitial ==
    /\ At("to_csv_initial")
    /\ files' = ("election_price_movements.csv" :> to_csv(df_movements)) @@ files
    /\ log' = Append(log, Info("Data saved to election_price_movements.csv"))
    /\ pc' = pc + 1
    /\ UNCHANGED <<vix_data, spy_data, df_movements, stdout, call, ret>>

CreateVisualizations ==
    /\ At("create_visualizations")
    /\ LET r == create_visualizations(df_movements)
       IN  /\ files' = WriteAll(files, r.saved)
           /\ log' = log \o <<Info("Creating visualizations")>>
                         \o [i \in 1..Len(r.saved) |-> Info("Saved plot: " \o r.saved[i][1])]
                         \o (IF r.raised = "none" THEN <<>> ELSE <<Traceback(r.raised)>>)
           /\ pc' = IF r.raised = "none" THEN pc + 1 ELSE Returned_pc
    /\ UNCHANGED <<vix_data, spy_data, df_movements, stdout, call, ret>>

CalculatePercentageChanges ==
    /\ At("calculate_percentage_changes")
    /\ LET r == calculate_percentage_changes(df_movements)
       IN  /\ df_movements' = r.df
           /\ log' = log \o (IF r.raised = "none" THEN <<>> ELSE <<Traceback(r.raised)>>)
           /\ pc' = IF r.raised = "none" THEN pc + 1 ELSE Returned_pc
    /\ UNCHANGED <<vix_data, spy_data, files, stdout, call, ret>>

PrintChanges ==
    /\ At("print_changes")
    /\ log' = Append(log, Info("Percentage Changes:"))
    /\ stdout' = Append(stdout,
                        Project(df_movements, <<"Year", "VIX_1m_change (%)", "SPY_1m_change (%)">>))
    /\ pc' = pc + 1
    /\ UNCHANGED <<vix_data, spy_data, df_movements, files, call, ret>>

ToCsvWithChanges ==
    /\ At("to_csv_with_changes")
    /\ files' = ("election_price_movements_with_changes.csv" :> to_csv(df_movements)) @@ files
    /\ log' = Append(log, Info("Updated data saved to election_price_movements_with_changes.csv"))
    /\ pc' = pc + 1
    /\ UNCHANGED <<vix_data, spy_data, df_movements, stdout, call, ret>>

Next ==
    \/ DownloadVix
    \/ DownloadSpy
    \/ CheckEmpty
    \/ CalculatePriceMovements
    \/ ToCsvInitial
    \/ CreateVisualizations
    \/ CalculatePercentageChanges
    \/ PrintChanges
    \/ ToCsvWithChanges

Spec == Init /\ [][Next]_vars

(***************************************************************************)
(* The functions called one at a time, on inputs drawn from bounded sets:  *)
(* call is the call made and ret what it returned.                         *)
(***************************************************************************)
mainVars == <<pc, vix_data, spy_data, df_movements, files, log, stdout>>

\* the election dates shifted by the months of RELATIVE_PERIODS
ElectionTargets ==
    {DateOffset(to_datetime(ELECTION_DATES[i][2]), RELATIVE_PERIODS[k][2]) :
        i \in 1..Len(ELECTION_DATES), k \in 1..Len(RELATIVE_PERIODS)}

ResolverTargets ==
    ElectionTargets \cup SeqToSet(PoolDates)
    \cup {[y |-> 2000, m |-> 1, d |-> 3], [y |-> 2000, m |-> 9, d |-> 20],
          [y |-> 2021, m |-> 1, d |-> 31]}

ResolverFrames ==
    {[index |-> idx, columns |-> {"Open", "Close"},
      Close |-> [i \in 1..Len(idx) |-> Float(100)]] :
        idx \in Indexes(to_datetime(START_DATE), to_datetime(END_DATE), MaxRows + 1)}

AnchorYears == {1999, 2000}

AnchorDates ==
    {[y |-> yy, m |-> mm, d |-> dd] :
        yy \in AnchorYears, mm \in 1..12, dd \in 1..31}

ValidDate(date) == date.d <= DaysInMonth(date.y, date.m)

ElectionDictPool == {ELECTION_DATES, SubSeq(ELECTION_DATES, 1, 2)}

PeriodsPool ==
    {RELATIVE_PERIODS,
     << <<"3_months_before", -3>>, <<"3_months_after", 3>> >>,
     << <<"1_month_before", -2>>, <<"1_month_after", 2>> >>}

\* <<before, after>> of one instrument in one row
PricePairs ==
    {<<Float(100), Float(110)>>, <<Float(110), Float(100)>>,
     <<Float(0), Float(110)>>, <<Float(0), Float(0)>>, <<Float(0), NaN>>,
     <<NaN, Float(110)>>, <<Float(110), NaN>>}

ChangeRow(year, vix, spy) ==
    <<year, << <<"VIX_2_months_before", Float(100)>>, <<"SPY_2_months_before", Float(100)>>,
               <<"VIX_1_month_before", vix[1]>>, <<"SPY_1_month_before", spy[1]>>,
               <<"VIX_1_month_after", vix[2]>>, <<"SPY_1_month_after", spy[2]>>,
               <<"VIX_2_months_after", Float(110)>>, <<"SPY_2_months_after", NaN>> >> >>

\* two-row tables as the Movement Calculator builds them
ChangeInputs ==
    {from_dict(<<ChangeRow(2000, v1, s1), ChangeRow(2004, v2, s2)>>) :
        v1 \in PricePairs, s1 \in PricePairs, v2 \in PricePairs, s2 \in PricePairs}

Call_get_closest_trading_day ==
    /\ call.fn = "none"
    /\ \E target \in ResolverTargets, data \in ResolverFrames :
          /\ call' = [fn |-> "get_closest_trading_day", target_date |-> target, data |-> data]
          /\ ret' = get_closest_trading_day(target, data)
    /\ UNCHANGED mainVars

Call_get_relative_dates ==
    /\ call.fn = "none"
    /\ \E anchor \in {a \in AnchorDates : ValidDate(a)} :
          /\ call' = [fn |-> "get_relative_dates", anchor |-> anchor,
                      election_date_str |-> isoformat(anchor)]
          /\ ret' = [raised |-> "none", value |-> get_relative_dates(isoformat(anchor))]
    /\ UNCHANGED mainVars

Call_calculate_price_movements ==
    /\ call.fn = "none"
    /\ \E election_dates \in ElectionDictPool, periods \in PeriodsPool,
          vix \in FetchResults(START_DATE, END_DATE),
          spy \in FetchResults(START_DATE, END_DATE) :
          /\ call' = [fn |-> "calculate_price_movements", election_dates |-> election_dates,
                      periods |-> periods, vix_data |-> vix, spy_data |-> spy]
          /\ ret' = [raised |-> "none",
                     df |-> calculate_price_movements(election_dates, periods, vix, spy).df]
    /\ UNCHANGED mainVars

Call_calculate_percentage_changes ==
    /\ call.fn = "none"
    /\ \E df \in ChangeInputs :
          /\ call' = [fn |-> "calculate_percentage_changes", df |-> df]
          /\ ret' = calculate_percentage_changes(df)
    /\ UNCHANGED mainVars

NextFn ==
    \/ Call_get_closest_trading_day
    \/ Call_get_relative_dates
    \/ Call_calculate_price_movements
    \/ Call_calculate_percentage_changes

SpecFn == Init /\ [][NextFn]_vars

(***************************************************************************)
(* Properties                                                              *)
(***************************************************************************)
Assets == {"VIX", "SPY"}

DataOf(asset) == IF asset = "VIX" THEN vix_data ELSE spy_data

\* the closing price on the latest day of a series on or before a target
\* date, NaN when there is no such day or the series has no closing prices
ExpectedCell(data, target) ==
    LET S == {i \in 1..Len(data.index) : DateLE(data.index[i], target)}
    IN  IF S = {} \/ "Close" \notin data.columns THEN NaN
        ELSE data.Close[CHOOSE i \in S : \A j \in S : DateLE(data.index[j], data.index[i])]

PriceColumn(asset, label) == asset \o "_" \o label

PriceColumns ==
    {PriceColumn(a, RELATIVE_PERIODS[k][1]) : a \in Assets, k \in 1..Len(RELATIVE_PERIODS)}

ChangeColumns == {"VIX_1m_change (%)", "SPY_1m_change (%)"}

Charts == {"election_trends.png", "vix_comparison.png", "correlation_heatmap.png"}

CsvInitial == "election_price_movements.csv"

CsvWithChanges == "election_price_movements_with_changes.csv"

\* the target date of election i and period k of the program's constants
Target(i, k) == DateOffset(to_datetime(ELECTION_DATES[i][2]), RELATIVE_PERIODS[k][2])

Cells == (1..Len(ELECTION_DATES)) \X (1..Len(RELATIVE_PERIODS)) \X Assets

CellValue(df, cell) == df.data[PriceColumn(cell[3], RELATIVE_PERIODS[cell[2]][1])][cell[1]]

\* C1: get_closest_trading_day returns the maximum series date that is on or
\* before the target when there is one, and otherwise raises ValueError and
\* returns no date.
C1_ClosestTradingDay ==
    call.fn = "get_closest_trading_day" =>
        LET onOrBefore == {t \in SeqToSet(call.data.index) : DateLE(t, call.target_date)}
        IN  IF onOrBefore # {}
            THEN /\ ret.raised = "none"
                 /\ ret.value \in onOrBefore
                 /\ \A t \in onOrBefore : DateLE(t, ret.value)
            ELSE /\ ret.raised = "ValueError"
                 /\ ret.value \notin SeqToSet(call.data.index)

\* a series D1 < D2 < D3 and a target strictly between D1 and D2 gave D1
C1_Witness ==
    /\ call.fn = "get_closest_trading_day"
    /\ Len(call.data.index) = Len(PoolDates)
    /\ DateLT(call.data.index[1], call.target_date)
    /\ DateLT(call.target_date, call.data.index[2])
    /\ ret.raised = "none"
    /\ ret.value = call.data.index[1]

\* C2: every cell of the table holds the closing price of its own resolved
\* trading day, or NaN when its own lookup fails; a failed lookup changes no
\* other cell, and one warning is logged per failed cell.
C2_CellIsolation ==
    df_movements # NoTable =>
        /\ \A cell \in Cells :
              CellValue(df_movements, cell)
                 = ExpectedCell(DataOf(cell[3]), Target(cell[1], cell[2]))
        /\ Cardinality({j \in 1..Len(log) :
                           log[j].level = "WARNING" /\ Len(log[j].at) = 2})
             = Cardinality({cell \in Cells :
                              \/ "Close" \notin DataOf(cell[3]).columns
                              \/ \A t \in SeqToSet(DataOf(cell[3]).index) :
                                    ~DateLE(t, Target(cell[1], cell[2]))})

\* exactly one cell failed: VIX two months before the first election; the
\* SPY cell of the same offset and all other cells hold prices
C2_Witness ==
    /\ df_movements # NoTable
    /\ IsNaN(CellValue(df_movements, <<1, 1, "VIX">>))
    /\ IsNum(CellValue(df_movements, <<1, 1, "SPY">>))
    /\ \A cell \in Cells \ {<<1, 1, "VIX">>} : IsNum(CellValue(df_movements, cell))

\* C3: with an empty series of either instrument, main never gets past the
\* emptiness check: no file is written, the Movement Calculator is not run,
\* and main returns after logging an error.
C3_EmptyFetchHalts ==
    (IsEmpty(vix_data) \/ IsEmpty(spy_data)) =>
        /\ DOMAIN files = {}
        /\ df_movements = NoTable
        /\ \A j \in 1..Len(log) : log[j].msg # "Processing election year"
        /\ \/ At("download_vix") \/ At("download_spy") \/ At("check_empty")
           \/ pc = Returned_pc /\ log[Len(log)].level = "ERROR"

\* main returned on an empty VIX series and a non-empty SPY series
C3_Witness ==
    /\ pc = Returned_pc
    /\ IsEmpty(vix_data)
    /\ ~IsEmpty(spy_data)
    /\ log[Len(log)].level = "ERROR"
    /\ DOMAIN files = {}

\* the change columns have been added
AfterChanges ==
    pc > (CHOOSE i \in 1..Len(MainBody) : MainBody[i] = "calculate_percentage_changes")

\* C4: the table has one row per election year; every Movement Record has
\* exactly the eight (instrument, offset) keys, which are pairwise distinct
\* names; the table's columns are Year and these eight, plus the two change
\* columns after the Change Calculator; an unresolved cell is NaN.
C4_TableShape ==
    df_movements # NoTable =>
        LET results == MovementResults(ELECTION_DATES, RELATIVE_PERIODS,
                                       vix_data, spy_data).results
            columns == {"Year"} \cup PriceColumns
                       \cup (IF AfterChanges THEN ChangeColumns ELSE {})
        IN  /\ df_movements.data["Year"] = DictKeys(ELECTION_DATES)
            /\ Cardinality(PriceColumns) = Cardinality(Assets) * Len(RELATIVE_PERIODS)
            /\ Cardinality(columns) = Len(df_movements.columns)
            /\ \A i \in 1..Len(results) :
                  /\ SeqToSet(DictKeys(results[i][2])) = PriceColumns
                  /\ Len(results[i][2]) = Cardinality(PriceColumns)
            /\ SeqToSet(df_movements.columns) = columns
            /\ \A c \in columns : Len(df_movements.data[c]) = Len(ELECTION_DATES)
            /\ \A cell \in Cells :
                  (\A t \in SeqToSet(DataOf(cell[3]).index) :
                        ~DateLE(t, Target(cell[1], cell[2])))
                  => /\ IsNaN(CellValue(df_movements, cell))
                     /\ IsNaN(DictGet(results[cell[1]][2],
                                      PriceColumn(cell[3], RELATIVE_PERIODS[cell[2]][1])))

\* the finished table, with change columns, one unresolved cell and one
\* resolved cell
C4_Witness ==
    /\ pc = Returned_pc
    /\ SeqToSet(df_movements.columns) = {"Year"} \cup PriceColumns \cup ChangeColumns
    /\ IsNaN(CellValue(df_movements, <<1, 1, "VIX">>))
    /\ IsNum(CellValue(df_movements, <<1, 2, "VIX">>))

\* C5: the first CSV file has Year and the eight price columns and no change
\* column; the charts are drawn after it from the table without change
\* columns; the change columns are added after the charts; the second CSV
\* file, another file, is written last and has the change columns too; a
\* run on two non-empty series writes both.
C5_WriteOrder ==
    /\ CsvInitial \in DOMAIN files =>
          SeqToSet(files[CsvInitial].header) = {"Year"} \cup PriceColumns
    /\ \A chart \in Charts \cap DOMAIN files :
          /\ CsvInitial \in DOMAIN files
          /\ SeqToSet(files[chart].of.columns) \cap ChangeColumns = {}
    /\ "correlation_heatmap.png" \in DOMAIN files =>
          SeqToSet(files["correlation_heatmap.png"].of.columns) = PriceColumns
    /\ SeqToSet(df_movements.columns) \cap ChangeColumns # {} =>
          Charts \cup {CsvInitial} \subseteq DOMAIN files
    /\ CsvWithChanges \in DOMAIN files =>
          /\ SeqToSet(files[CsvWithChanges].header)
               = {"Year"} \cup PriceColumns \cup ChangeColumns
          /\ ChangeColumns \subseteq SeqToSet(df_movements.columns)
          /\ Charts \cup {CsvInitial} \subseteq DOMAIN files
    /\ (pc = Returned_pc /\ ~IsEmpty(vix_data) /\ ~IsEmpty(spy_data)) =>
          {CsvInitial, CsvWithChanges} \subseteq DOMAIN files

\* the charts are drawn and the change columns not yet added
C5_Witness ==
    /\ Charts \cup {CsvInitial} \subseteq DOMAIN files
    /\ CsvWithChanges \notin DOMAIN files
    /\ At("calculate_percentage_changes")
    /\ SeqToSet(df_movements.columns) \cap ChangeColumns = {}

\* the rows of the call's table, with the instrument
ChangeCells == (1..NRows(call.df)) \X Assets

Before(cell) == call.df.data[cell[2] \o "_1_month_before"][cell[1]]

After(cell) == call.df.data[cell[2] \o "_1_month_after"][cell[1]]

Change(cell) == ret.df.data[cell[2] \o "_1m_change (%)"][cell[1]]

\* the change of a cell is the number (after - before) / before * 100
IsPctChange(cell) ==
    /\ IsNum(Change(cell))
    /\ Change(cell).n * After(cell).d * Before(cell).n
         = 100 * (After(cell).n * Before(cell).d - Before(cell).n * After(cell).d)
               * Change(cell).d

\* C6: where before and after of a row and instrument are present and before
\* is not zero, the change of that row and instrument is
\* (after - before) / before * 100 (10 for 100 and 110); Year and the price
\* columns are unchanged.
C6_PercentageChange ==
    call.fn = "calculate_percentage_changes" =>
        /\ ret.df.columns = call.df.columns \o <<"VIX_1m_change (%)", "SPY_1m_change (%)">>
        /\ \A c \in SeqToSet(call.df.columns) : ret.df.data[c] = call.df.data[c]
        /\ \A cell \in ChangeCells :
              /\ (IsNum(Before(cell)) /\ IsNum(After(cell)) /\ ~IsZero(Before(cell)))
                    => IsPctChange(cell)
              /\ (Before(cell) = Float(100) /\ After(cell) = Float(110))
                    => Change(cell) = Float(10)

\* before = 100 and after = 110 for VIX gave 10, next to other SPY values
C6_Witness ==
    /\ call.fn = "calculate_percentage_changes"
    /\ Before(<<1, "VIX">>) = Float(100)
    /\ After(<<1, "VIX">>) = Float(110)
    /\ Before(<<1, "SPY">>) = Float(110)
    /\ Change(<<1, "VIX">>) = Float(10)
    /\ Change(<<1, "SPY">>) # Float(10)

\* C7 as stated: an absent or zero before value gives not-a-number.
C7_ZeroOrAbsentBeforeIsNaN ==
    call.fn = "calculate_percentage_changes" =>
        /\ ret.raised = "none"
        /\ \A cell \in ChangeCells :
              (IsNaN(Before(cell)) \/ IsZero(Before(cell))) => IsNaN(Change(cell))

\* C7 (amended): no error is raised; an absent before value, or a zero before
\* value with a zero or absent after value, gives not-a-number; a zero
\* before value with a present non-zero after value gives an infinity; the
\* changes of the other rows and of the other instrument are computed
\* normally.
C7_ZeroOrAbsentBefore ==
    call.fn = "calculate_percentage_changes" =>
        /\ ret.raised = "none"
        /\ \A cell \in ChangeCells :
              /\ IsNaN(Before(cell)) => IsNaN(Change(cell))
              /\ (IsZero(Before(cell)) /\ (IsNaN(After(cell)) \/ IsZero(After(cell))))
                    => IsNaN(Change(cell))
              /\ (IsZero(Before(cell)) /\ IsNum(After(cell)) /\ ~IsZero(After(cell)))
                    => IsInf(Change(cell))
              /\ (IsNum(Before(cell)) /\ IsNum(After(cell)) /\ ~IsZero(Before(cell)))
                    => IsPctChange(cell)

\* VIX of the first row has before = 0 and a price after, VIX of the second
\* row has no before value, and SPY of the first row is computed normally
C7_Witness ==
    /\ call.fn = "calculate_percentage_changes"
    /\ IsZero(Before(<<1, "VIX">>)) /\ After(<<1, "VIX">>) = Float(110)
    /\ IsInf(Change(<<1, "VIX">>))
    /\ IsNaN(Before(<<2, "VIX">>)) /\ IsNaN(Change(<<2, "VIX">>))
    /\ Before(<<1, "SPY">>) = Float(100) /\ After(<<1, "SPY">>) = Float(110)
    /\ Change(<<1, "SPY">>) = Float(10)

\* the number of the month of a date, counted from year 0
MonthIndex(date) == 12 * date.y + date.m - 1

\* C8: every target of get_relative_dates is the anchor shifted by the signed
\* number of calendar months, the day of the month kept when the target month
\* has it and otherwise clamped to the month's last day; shifting a target
\* back by the same number of months gives the anchor when the day was not
\* clamped.
C8_RelativeDates ==
    call.fn = "get_relative_dates" =>
        /\ DictKeys(ret.value) = DictKeys(RELATIVE_PERIODS)
        /\ \A k \in 1..Len(RELATIVE_PERIODS) :
              LET months == RELATIVE_PERIODS[k][2]
                  target == ret.value[k][2]
              IN  /\ MonthIndex(target) = MonthIndex(call.anchor) + months
                  /\ target.d = Min(call.anchor.d, DaysInMonth(target.y, target.m))
                  /\ target.d = call.anchor.d
                        => DateOffset(target, -months) = call.anchor

\* an anchor on the 31st whose target, shifted back, is not the anchor
C8_Witness ==
    /\ call.fn = "get_relative_dates"
    /\ call.anchor.d = 31
    /\ \E k \in 1..Len(RELATIVE_PERIODS) :
          /\ ret.value[k][2].d < call.anchor.d
          /\ DateOffset(ret.value[k][2], -RELATIVE_PERIODS[k][2]) # call.anchor

\* C9: the price columns of the table that calculate_price_movements returns
\* are the (instrument, label) pairs of the labels of its periods argument,
\* each resolved at the election date shifted by the months that periods
\* gives for the label.
C9_PeriodsArgumentDecides ==
    call.fn = "calculate_price_movements" =>
        /\ SeqToSet(ret.df.columns) \ {"Year"}
             = {PriceColumn(a, call.periods[k][1]) : a \in Assets, k \in 1..Len(call.periods)}
        /\ \A i \in 1..Len(call.election_dates), k \in 1..Len(call.periods) :
              /\ ret.df.data[PriceColumn("VIX", call.periods[k][1])][i]
                   = ExpectedCell(call.vix_data,
                        DateOffset(to_datetime(call.election_dates[i][2]), call.periods[k][2]))
              /\ ret.df.data[PriceColumn("SPY", call.periods[k][1])][i]
                   = ExpectedCell(call.spy_data,
                        DateOffset(to_datetime(call.election_dates[i][2]), call.periods[k][2]))

\* both series are non-empty and every target date precedes every date of
\* both series
AllUnresolvable ==
    /\ ~IsEmpty(vix_data) /\ ~IsEmpty(spy_data)
    /\ \A a \in Assets : \A cell \in Cells : \A t \in SeqToSet(DataOf(a).index) :
          DateLT(Target(cell[1], cell[2]), t)

\* C10: when both series are non-empty and no target date can be resolved,
\* main runs to its end without an error: both CSV files and the three
\* charts are written, and every price cell and every change cell is NaN
\* (an empty field in the CSV files).
C10_AllCellsMissing ==
    (AllUnresolvable /\ pc = Returned_pc) =>
        /\ \A j \in 1..Len(log) : log[j].level \notin {"ERROR", "TRACEBACK"}
        /\ Charts \cup {CsvInitial, CsvWithChanges} \subseteq DOMAIN files
        /\ \A c \in PriceColumns \cup ChangeColumns :
              \A i \in 1..Len(ELECTION_DATES) : IsNaN(df_movements.data[c][i])
        /\ \A f \in {CsvInitial, CsvWithChanges} :
              \A i \in 1..Len(files[f].lines) : \A j \in 1..Len(files[f].header) :
                 files[f].header[j] # "Year" => files[f].lines[i][j].empty

\* main has returned from such a run with the second CSV file written
C10_Witness ==
    /\ AllUnresolvable
    /\ pc = Returned_pc
    /\ CsvWithChanges \in DOMAIN files
    /\ Len(files[CsvWithChanges].lines) = Len(ELECTION_DATES)

====
